---- MODULE Spec2Model ----
(***************************************************************************)
(* Movie recommender: RecommendationWorker.run (query resolution, stable   *)
(* descending sort, top-20 selection) and the MovieRecommenderGUI handlers *)
(* that start workers and receive their queued signals.                    *)
(*                                                                         *)
(* Conventions.                                                            *)
(*  - A string is a sequence of one-character strings.                     *)
(*  - Rows are numbered 1..N here; row r is pandas position/label r-1.     *)
(*  - A similarity score is held as the squared cosine in quarters         *)
(*    (0, 2, 4 for cosines 0, 1/sqrt 2, 1): an order-preserving image of   *)
(*    the float the program holds, exact for 0/1 counts over two tokens.   *)
(***************************************************************************)
EXTENDS Integers, Sequences, FiniteSets, TLC

VARIABLES
    df,                   \* self.df: sequence of rows [title, counts]
    cosine_sim,           \* self.cosine_sim: matrix of scores
    worker,               \* self.worker: id of the current worker, 0 = None
    workers,              \* every worker created: id -> [movie_title, movie_index,
                          \*   emitted (run has reached its emit), state of the thread]
    queue,                \* signals emitted by workers, not yet delivered to the GUI thread
    recommend_button,     \* self.recommend_button.isEnabled()
    recommendations_list, \* items of self.recommendations_list
    results_label,        \* text of self.results_label
    status_label,         \* text of self.status_label
    message_box           \* title of the last QMessageBox shown, "" = none yet

vars == <<df, cosine_sim, worker, workers, queue, recommend_button,
          recommendations_list, results_label, status_label, message_box>>

gui == <<recommend_button, recommendations_list, results_label, status_label, message_box>>

----------------------------------------------------------------------------
(* Bounds and input pools *)

MaxN == 3             \* rows of a small corpus
MaxPattern == 2       \* rows of the pattern a large corpus repeats
MaxRep == 11          \* times a large corpus repeats its pattern
GuiMaxN == 2          \* rows of a corpus in the GUI specification
MaxSubmissions == 2   \* calls of get_recommendations that pass validation

K == 20

TitlePool == { <<"a">>, <<"A">>, <<"a", "a">>, <<"a", ".">> }

QueryPool == TitlePool \cup { <<".">>, <<"b">>, <<"(">> }

\* rows of the count matrix over the vocabulary <<x, y>>
CountPool == { <<0, 0>>, <<1, 0>>, <<1, 1>> }

Items == [title : TitlePool, counts : CountPool]

RECURSIVE SeqsUpTo(_, _)
SeqsUpTo(S, n) ==
    IF n = 0 THEN { <<>> }
    ELSE LET shorter == SeqsUpTo(S, n - 1)
         IN  shorter \cup { Append(s, x) : s \in { t \in shorter : Len(t) = n - 1 }, x \in S }

RECURSIVE Repeat(_, _)
Repeat(s, r) == IF r = 0 THEN <<>> ELSE s \o Repeat(s, r - 1)

BaseCorpora(n) == SeqsUpTo(Items, n) \ { <<>> }

Corpora == BaseCorpora(MaxN) \cup { Repeat(c, MaxRep) : c \in BaseCorpora(MaxPattern) }

\* the corpora and the texts typed in the GUI specification
GuiItems == { [title |-> <<"a">>, counts |-> <<1, 0>>],
              [title |-> <<"a", ".">>, counts |-> <<1, 1>>] }

GuiCorpora == SeqsUpTo(GuiItems, GuiMaxN) \ { <<>> }

InputPool == { <<>>, <<" ", "a", " ">>, <<"b">>, <<"(">> }

----------------------------------------------------------------------------
(* load_and_process_data *)

Dot(u, v) == u[1] * v[1] + u[2] * v[2]

CosineSimilarity(u, v) ==
    IF Dot(u, u) * Dot(v, v) = 0 THEN 0
    ELSE (Dot(u, v) * Dot(u, v) * 4) \div (Dot(u, u) * Dot(v, v))

SimilarityMatrix(d) ==
    [i \in 1..Len(d) |-> [j \in 1..Len(d) |-> CosineSimilarity(d[i].counts, d[j].counts)]]

----------------------------------------------------------------------------
(* RecommendationWorker.run *)

\* a local variable: the value is computed once and named in the body
Local(value, Body(_)) == CHOOSE result \in { Body(v) : v \in {value} } : TRUE

LowerChar(c) == IF c = "A" THEN "a" ELSE c

Lower(s) == [i \in 1..Len(s) |-> LowerChar(s[i])]

\* re.compile: the only pattern over the alphabet that fails to compile has
\* an opening parenthesis (no closing one exists in the alphabet)
RegexCompiles(pat) == \A i \in 1..Len(pat) : pat[i] # "("

\* "." matches any character, every other character matches itself
RegexMatchAt(pat, s, p) ==
    \A i \in 1..Len(pat) : pat[i] = "." \/ pat[i] = s[p + i - 1]

RegexSearch(pat, s) ==
    \E p \in 1..(Len(s) - Len(pat) + 1) : RegexMatchAt(pat, s, p)

ExactMatches(movie_title) ==
    { r \in 1..Len(df) : Lower(df[r].title) = Lower(movie_title) }

PartialMatches(movie_title) ==
    { r \in 1..Len(df) : RegexSearch(Lower(movie_title), Lower(df[r].title)) }

\* str.contains raises re.error before any row is examined
ContainsRaises(movie_title) ==
    ExactMatches(movie_title) = {} /\ ~RegexCompiles(Lower(movie_title))

MovieMatches(movie_title) ==
    IF ExactMatches(movie_title) # {} THEN ExactMatches(movie_title)
    ELSE PartialMatches(movie_title)

SetMin(S) == CHOOSE x \in S : \A y \in S : x <= y

\* mutant: movie_matches.index[-1], the last match instead of the first
MovieIndex_LastMatch(movie_title) ==
    CHOOSE x \in MovieMatches(movie_title) : \A y \in MovieMatches(movie_title) : x >= y

MovieIndex(movie_title) == SetMin(MovieMatches(movie_title))

SimilarMovies(movie_index) ==
    [j \in 1..Len(df) |-> [idx |-> j, score |-> cosine_sim[movie_index][j]]]

\* sorted(similar_movies, key=score, reverse=True): the sort is stable, so a
\* movie goes after every movie with a higher score and after the movies
\* with its own score that precede it in the list
\* mutant: an ascending sort read backwards, which reverses the ties
PlaceDescending_TiesReversed(s, j) ==
    1 + Cardinality({ i \in 1..Len(s) :
                        s[i].score > s[j].score \/ (s[i].score = s[j].score /\ i > j) })

PlaceDescending(s, j) ==
    1 + Cardinality({ i \in 1..Len(s) :
                        s[i].score > s[j].score \/ (s[i].score = s[j].score /\ i < j) })

SortedDescending(s) ==
    Local([j \in 1..Len(s) |-> PlaceDescending(s, j)], LAMBDA place :
        [p \in 1..Len(s) |-> s[CHOOSE j \in 1..Len(s) : place[j] = p]])

\* one recommendation; "row" is not in the program's tuple, it records which
\* row the (title, score) pair was read from
Recommendation(movie) ==
    [row |-> movie.idx, title |-> df[movie.idx].title, score |-> movie.score]

\* mutant: count > 20, one recommendation too many
LoopBreaks_OffByOne(count) == count > K

\* if count >= 20: break
LoopBreaks(count) == count >= K

\* the loop over sorted_similar_movies from position pos on, count
\* recommendations appended so far
RECURSIVE TopRecommendations(_, _, _, _)
TopRecommendations(sorted, movie_index, pos, count) ==
    IF pos > Len(sorted) THEN <<>>
    ELSE IF sorted[pos].idx # movie_index
         THEN <<Recommendation(sorted[pos])>> \o
              (IF LoopBreaks(count + 1) THEN <<>>
               ELSE TopRecommendations(sorted, movie_index, pos + 1, count + 1))
         ELSE TopRecommendations(sorted, movie_index, pos + 1, count)

\* mutant: drops the head of the sorted list, taking it for the query itself,
\* instead of comparing indices
Recommendations_SkipFirst(movie_index) ==
    Local(movie_index, LAMBDA index :
        Local(SimilarMovies(index), LAMBDA similar_movies :
            Local(SortedDescending(similar_movies), LAMBDA sorted_similar_movies :
                TopRecommendations(sorted_similar_movies, 0, 2, 0))))

\* the body of run after the resolution, its local variables bound one by one
Recommendations(movie_index) ==
    Local(movie_index, LAMBDA index :
        Local(SimilarMovies(index), LAMBDA similar_movies :
            Local(SortedDescending(similar_movies), LAMBDA sorted_similar_movies :
                TopRecommendations(sorted_similar_movies, index, 1, 0))))

NotFoundMessage(movie_title) == <<"Movie not found in the database", movie_title>>

ExceptionMessage == <<"An error occurred", "re.error">>

\* the value run leaves in its local movie_index, 0 when it never assigns it
RunMovieIndex(movie_title) ==
    IF ContainsRaises(movie_title) \/ MovieMatches(movie_title) = {} THEN 0
    ELSE MovieIndex(movie_title)

\* mutant: the not-found branch returns without emitting
Emits_SilentNotFound(id, movie_title) ==
    IF ContainsRaises(movie_title)
    THEN << [sender |-> id, signal |-> "error", recommendations |-> <<>>,
             message |-> ExceptionMessage] >>
    ELSE IF MovieMatches(movie_title) = {}
    THEN <<>>
    ELSE << [sender |-> id, signal |-> "finished",
             recommendations |-> Recommendations(MovieIndex(movie_title)),
             message |-> <<>>] >>

\* the signals run emits, in order (one on every path); the None that
\* finished carries as its error text is the empty message here
Emits(id, movie_title) ==
    IF ContainsRaises(movie_title)
    THEN << [sender |-> id, signal |-> "error", recommendations |-> <<>>,
             message |-> ExceptionMessage] >>
    ELSE IF MovieMatches(movie_title) = {}
    THEN << [sender |-> id, signal |-> "error", recommendations |-> <<>>,
             message |-> NotFoundMessage(movie_title)] >>
    ELSE << [sender |-> id, signal |-> "finished",
             recommendations |-> Recommendations(MovieIndex(movie_title)),
             message |-> <<>>] >>

----------------------------------------------------------------------------
(* MovieRecommenderGUI *)

InitGui ==
    /\ worker = 0
    /\ workers = <<>>
    /\ queue = <<>>
    /\ recommend_button = TRUE
    /\ recommendations_list = <<>>
    /\ results_label = <<"Recommendations will appear here...">>
    /\ status_label = <<"Ready">>
    /\ message_box = ""

Init ==
    /\ df \in GuiCorpora
    /\ cosine_sim = SimilarityMatrix(df)
    /\ InitGui

RECURSIVE StripLeft(_)
StripLeft(s) ==
    IF s # <<>> /\ Head(s) = " " THEN StripLeft(Tail(s)) ELSE s

Reverse(s) == [i \in 1..Len(s) |-> s[Len(s) + 1 - i]]

Strip(s) == Reverse(StripLeft(Reverse(StripLeft(s))))

isRunning(w) == w.state = "running"

\* mutant: the running worker is left running
TerminateAndWait_Skipped(ws, w) == ws

\* self.worker.terminate(); self.worker.wait(), when the current worker runs;
\* wait() returns once the thread has ended
TerminateAndWait(ws, w) ==
    IF w # 0 /\ isRunning(ws[w]) THEN [ws EXCEPT ![w].state = "terminated"] ELSE ws

NewWorker(movie_title) ==
    [movie_title |-> movie_title, movie_index |-> 0, emitted |-> FALSE, state |-> "running"]

get_recommendations(text) ==
    LET movie_title == Strip(text) IN
    IF movie_title = <<>>
    THEN /\ message_box' = "Input Required"
         /\ UNCHANGED <<df, cosine_sim, worker, workers, queue, recommend_button,
                        recommendations_list, results_label, status_label>>
    ELSE /\ Len(workers) < MaxSubmissions
         /\ recommend_button' = FALSE
         /\ recommendations_list' = <<>>
         /\ status_label' = <<"Searching for recommendations...">>
         /\ results_label' = <<"Processing...">>
         /\ workers' = Append(TerminateAndWait(workers, worker), NewWorker(movie_title))
         /\ worker' = Len(workers) + 1
         /\ UNCHANGED <<df, cosine_sim, queue, message_box>>

\* mutant: the button is not enabled again
handle_error_ButtonLeft(error_message) ==
    /\ UNCHANGED recommend_button
    /\ status_label' = <<"Error occurred">>
    /\ message_box' = "Error"
    /\ results_label' = <<"Error: ", error_message>>
    /\ recommendations_list' = <<>>

handle_error(error_message) ==
    /\ recommend_button' = TRUE
    /\ status_label' = <<"Error occurred">>
    /\ message_box' = "Error"
    /\ results_label' = <<"Error: ", error_message>>
    /\ recommendations_list' = <<>>

ListItem(recommendations, idx) ==
    [idx |-> idx, title |-> recommendations[idx].title, score |-> recommendations[idx].score]

display_recommendations(recommendations, error) ==
    IF error # <<>>
    THEN handle_error(error)
    ELSE /\ recommend_button' = TRUE
         /\ IF recommendations = <<>>
            THEN /\ results_label' = <<"No recommendations found.">>
                 /\ status_label' = <<"No results">>
                 /\ UNCHANGED recommendations_list
            ELSE /\ recommendations_list' =
                        [idx \in 1..Len(recommendations) |-> ListItem(recommendations, idx)]
                 /\ results_label' = <<"Found", Len(recommendations)>>
                 /\ status_label' = <<"Displaying", Len(recommendations)>>
         /\ UNCHANGED message_box

\* the worker thread executes run: one step up to the emit
run(id) ==
    /\ isRunning(workers[id]) /\ ~workers[id].emitted
    /\ workers' = [workers EXCEPT ![id].movie_index = RunMovieIndex(workers[id].movie_title),
                                  ![id].emitted = TRUE]
    /\ queue' = queue \o Emits(id, workers[id].movie_title)
    /\ UNCHANGED <<df, cosine_sim, worker, gui>>

\* run has returned and the thread finishes: isRunning() turns false
thread_exit(id) ==
    /\ isRunning(workers[id]) /\ workers[id].emitted
    /\ workers' = [workers EXCEPT ![id].state = "finished"]
    /\ UNCHANGED <<df, cosine_sim, worker, queue, gui>>

\* The GUI thread's event loop delivers the oldest queued signal to its slot.
\* Nothing in get_recommendations disconnects or discards the signals of the
\* worker it replaces, so a signal already queued is still delivered.
Deliver ==
    /\ queue # <<>>
    /\ IF Head(queue).signal = "finished"
       THEN display_recommendations(Head(queue).recommendations, Head(queue).message)
       ELSE handle_error(Head(queue).message)
    /\ queue' = Tail(queue)
    /\ UNCHANGED <<df, cosine_sim, worker, workers>>

Next ==
    \/ \E text \in InputPool : get_recommendations(text)
    \/ \E id \in DOMAIN workers : run(id)
    \/ \E id \in DOMAIN workers : thread_exit(id)
    \/ Deliver

Spec == Init /\ [][Next]_vars

\* worker threads are scheduled and the event loop keeps delivering
FairSpec ==
    /\ Spec
    /\ WF_vars(\E id \in DOMAIN workers : run(id))
    /\ WF_vars(\E id \in DOMAIN workers : thread_exit(id))
    /\ WF_vars(Deliver)

----------------------------------------------------------------------------
(* The ranking specification: a worker built on any corpus and run alone *)

RankInit ==
    /\ df \in Corpora
    /\ cosine_sim = SimilarityMatrix(df)
    /\ InitGui

Recommend(movie_title) ==
    /\ worker = 0
    /\ worker' = 1
    /\ workers' = << [NewWorker(movie_title) EXCEPT
                         !.movie_index = RunMovieIndex(movie_title),
                         !.emitted = TRUE, !.state = "finished"] >>
    /\ queue' = Emits(1, movie_title)
    /\ UNCHANGED <<df, cosine_sim, gui>>

RankNext == \E movie_title \in QueryPool : Recommend(movie_title)

RankSpec == RankInit /\ [][RankNext]_vars

----------------------------------------------------------------------------
(* Vocabulary of the properties *)

N == Len(df)

Rows(recommendations) == { recommendations[i].row : i \in 1..Len(recommendations) }

\* the queued signals that carry a result
Results == { i \in 1..Len(queue) : queue[i].signal = "finished" }

QueryOf(i) == workers[queue[i].sender].movie_title

ResolvedOf(i) == workers[queue[i].sender].movie_index

\* the query text occurs in the title, character for character, ignoring case
IsSubstring(q, t) ==
    \E p \in 1..(Len(t) - Len(q) + 1) :
        \A i \in 1..Len(q) : Lower(q)[i] = Lower(t)[p + i - 1]

TitleEquals(q) == { r \in 1..N : Lower(df[r].title) = Lower(q) }

TitleContains(q) == { r \in 1..N : IsSubstring(q, df[r].title) }

FirstWithItsTitle(r) == \A j \in 1..(r - 1) : Lower(df[j].title) # Lower(df[r].title)

Smaller(a, b) == IF a < b THEN a ELSE b

----------------------------------------------------------------------------
(* Properties of RecommendationWorker.run, checked under RankSpec *)

\* C1: the row a query resolved to is never among the rows of the result,
\* whatever its self-similarity and wherever the sort puts it.
C1_QueryRowExcluded ==
    \A i \in Results : ResolvedOf(i) \in 1..N /\ ResolvedOf(i) \notin Rows(queue[i].recommendations)

\* a result of two rows for a query that resolved to the middle row, whose
\* self-similarity is 0 and ties with the others
C1_Witness ==
    \E i \in Results :
        /\ ResolvedOf(i) = 2
        /\ cosine_sim[2][2] = 0
        /\ {1, 3} \subseteq Rows(queue[i].recommendations)

\* C2 as stated: run with the exact title of any row i never returns row i.
C2_AnyItemExcluded ==
    \A i \in Results : \A r \in 1..N :
        df[r].title = QueryOf(i) => r \notin Rows(queue[i].recommendations)

\* C2 amended: run with the exact title of a row i that no earlier row shares
\* its title with (ignoring case) ends in a result without row i.
C2_FirstItemExcluded ==
    \A i \in 1..Len(queue) : \A r \in 1..N :
        (df[r].title = QueryOf(i) /\ FirstWithItsTitle(r))
            => (queue[i].signal = "finished" /\ r \notin Rows(queue[i].recommendations))

\* the title is shared: the first row that has it is left out, a later one is returned
C2_Witness ==
    \E i \in Results : \E r, d \in 1..N :
        /\ r < d
        /\ df[r].title = QueryOf(i) /\ df[d].title = QueryOf(i)
        /\ FirstWithItsTitle(r)
        /\ r \notin Rows(queue[i].recommendations)
        /\ d \in Rows(queue[i].recommendations)

\* C3: a title equal to the query (ignoring case) resolves to the lowest such
\* row; failing that, a title containing the query as a substring (ignoring
\* case) resolves to the lowest such row.
C3_TwoStageFirstMatch ==
    \A i \in 1..Len(queue) :
        /\ TitleEquals(QueryOf(i)) # {} => ResolvedOf(i) = SetMin(TitleEquals(QueryOf(i)))
        /\ (TitleEquals(QueryOf(i)) = {} /\ TitleContains(QueryOf(i)) # {})
               => ResolvedOf(i) = SetMin(TitleContains(QueryOf(i)))

\* C4: run ends in an error exactly when no title equals and no title
\* contains the query, and that error is the not-found message.
C4_NotFoundOnlyError ==
    \A i \in 1..Len(queue) :
        /\ queue[i].signal = "error"
               <=> (TitleEquals(QueryOf(i)) = {} /\ TitleContains(QueryOf(i)) = {})
        /\ queue[i].signal = "error" => queue[i].message = NotFoundMessage(QueryOf(i))

\* C5: the result carries the scores of the resolved row, in non-increasing
\* order, equal scores in ascending row order.
C5_SortedStable ==
    \A i \in Results :
        LET recs == queue[i].recommendations IN
        /\ \A a \in 1..Len(recs) : recs[a].score = cosine_sim[ResolvedOf(i)][recs[a].row]
        /\ \A a, b \in 1..Len(recs) :
               a < b => \/ recs[a].score > recs[b].score
                        \/ recs[a].score = recs[b].score /\ recs[a].row < recs[b].row

\* a result with a tie and a strict descent
C5_Witness ==
    \E i \in Results :
        LET recs == queue[i].recommendations IN
        /\ Len(recs) >= 3
        /\ \E a \in 1..(Len(recs) - 1) : recs[a].score = recs[a + 1].score
        /\ \E a \in 1..(Len(recs) - 1) : recs[a].score > recs[a + 1].score

\* C6: the result has min(K, N-1) rows, so between 0 and K and none only for
\* a one-row corpus, and no row left out ranks before a row returned.
C6_LengthAndPrefix ==
    \A i \in Results :
        LET recs == queue[i].recommendations IN
        /\ Len(recs) = Smaller(K, N - 1)
        /\ Len(recs) \in 0..K
        /\ Len(recs) = 0 => N = 1
        /\ Cardinality(Rows(recs)) = Len(recs)
        /\ \A r \in (1..N) \ (Rows(recs) \cup {ResolvedOf(i)}) : \A a \in 1..Len(recs) :
               \/ cosine_sim[ResolvedOf(i)][r] < recs[a].score
               \/ cosine_sim[ResolvedOf(i)][r] = recs[a].score /\ r > recs[a].row

\* the corpus has more than K rows besides the query's and K are returned
C6_Witness ==
    \E i \in Results : N > K + 1 /\ Len(queue[i].recommendations) = K

----------------------------------------------------------------------------
(* Properties of the GUI and its workers, checked under Spec and FairSpec *)

\* the step in which the GUI thread handles the oldest queued signal
Delivered == queue # <<>> /\ queue' = Tail(queue)

ErrorDelivered == Delivered /\ Head(queue).signal = "error"

RunningWorkers == { id \in DOMAIN workers : isRunning(workers[id]) }

\* C7: handling a worker's error (not-found or any other) leaves the corpus,
\* the similarity matrix and the workers as they were and enables the
\* Recommend button, and no step at all changes the corpus or the matrix.
C7_ErrorLeavesEngineReady ==
    [][/\ df' = df /\ cosine_sim' = cosine_sim
       /\ ErrorDelivered => (recommend_button' /\ workers' = workers /\ worker' = worker)]_vars

\* an error was shown, and the query after it has its result on display with
\* the button enabled
C7_Witness ==
    /\ message_box = "Error"
    /\ recommend_button
    /\ Len(workers) >= 2
    /\ queue = <<>>
    /\ recommendations_list # <<>>
    /\ results_label[1] = "Found"

\* C8: at most one worker thread is running in any state.
C8_AtMostOneRunning == Cardinality(RunningWorkers) <= 1

\* a worker was terminated for the submission that started the running one
C8_Witness ==
    /\ \E id \in DOMAIN workers : workers[id].state = "terminated"
    /\ RunningWorkers = {worker}

\* C9: the GUI never handles (displays, or enables the button for) a signal
\* of a worker other than the one started by the latest submission.
C9_LastQueryWins ==
    [][Delivered => Head(queue).sender = worker]_vars

\* C10: whenever the Recommend button is disabled it is eventually enabled.
C10_ButtonReenabled == (~recommend_button) ~> recommend_button

\* a worker was terminated before it emitted anything, and the button is
\* enabled again with nothing left to run or deliver
C10_Witness ==
    /\ \E id \in DOMAIN workers : workers[id].state = "terminated" /\ ~workers[id].emitted
    /\ recommend_button
    /\ queue = <<>>
    /\ RunningWorkers = {}

====
